---- MODULE Spec2Model ----
(***************************************************************************)
(* Model of tools/clean-teams.js: the cleanup tool (cleanTeamsArray,       *)
(* cleanRegions, run) and the expand tool (getTop30's ordered dedupe,      *)
(* buildSlugIndex, mergeTeam, the per-region loop and the rebuild of the   *)
(* flat teams list).                                                       *)
(*                                                                         *)
(* A JavaScript string is a sequence of characters; a character is a       *)
(* one-character TLA+ string, except the two tokens AcuteA (U+00E1, the    *)
(* precomposed a-acute) and CombAcute (U+0301, the combining acute), which *)
(* are what String.prototype.normalize splits and joins.                   *)
(***************************************************************************)
EXTENDS Integers, Sequences, FiniteSets, TLC

\* ------------------------------------------------------------------------
\* Characters and character classes of the regular expressions
\* ------------------------------------------------------------------------
LowerLetters ==
  <<"a","b","c","d","e","f","g","h","i","j","k","l","m",
    "n","o","p","q","r","s","t","u","v","w","x","y","z">>

UpperLetters ==
  <<"A","B","C","D","E","F","G","H","I","J","K","L","M",
    "N","O","P","Q","R","S","T","U","V","W","X","Y","Z">>

Digits == <<"0","1","2","3","4","5","6","7","8","9">>

AcuteA == "<a-acute>"

CombAcute == "<comb-acute>"

Range(s) == { s[k] : k \in DOMAIN s }

DigitSet == Range(Digits)

LowerAlnumSet == Range(LowerLetters) \cup Range(Digits)

WordCharSet ==
  Range(LowerLetters) \cup Range(UpperLetters) \cup Range(Digits) \cup {"_"}

UpperSet == Range(UpperLetters)

\* \d
IsDigit(c) == c \in DigitSet

\* \s (the inputs hold no other white space than the blank)
IsSpace(c) == c = " "

\* [a-z0-9]
IsLowerAlnum(c) == c \in LowerAlnumSet

\* \w, the word characters that decide \b
IsWordChar(c) == c \in WordCharSet

IsHyphen(c) == c = "-"

LowerOf == [c \in UpperSet |-> LowerLetters[CHOOSE k \in DOMAIN UpperLetters : UpperLetters[k] = c]]

\* String.prototype.toLowerCase, one character
LowerChar(c) == IF c \in UpperSet THEN LowerOf[c] ELSE c

toLowerCase(s) == [k \in DOMAIN s |-> LowerChar(s[k])]

\* a JavaScript string
Str == Seq(STRING)

\* a team record {logo, names} of the registry; a missing logo is <<>>
TeamRecord == [logo : Str, names : Seq(Str)]

\* ------------------------------------------------------------------------
\* Generic sequence helpers (what the regex replaces and array methods do)
\* ------------------------------------------------------------------------
\* the remainder after a leading \s*
DropWhileSpace[s \in Str] ==
  IF s # <<>> /\ IsSpace(Head(s)) THEN DropWhileSpace[Tail(s)] ELSE s

\* the remainder after a leading \d*
DropWhileDigit[s \in Str] ==
  IF s # <<>> /\ IsDigit(Head(s)) THEN DropWhileDigit[Tail(s)] ELSE s

DropTrailingSpace[s \in Str] ==
  IF s # <<>> /\ IsSpace(s[Len(s)])
    THEN DropTrailingSpace[SubSeq(s, 1, Len(s) - 1)]
    ELSE s

\* String.prototype.trim
Trim(s) == DropTrailingSpace[DropWhileSpace[s]]

DropLeadingHyphens[s \in Str] ==
  IF s # <<>> /\ IsHyphen(Head(s)) THEN DropLeadingHyphens[Tail(s)] ELSE s

DropTrailingHyphens[s \in Str] ==
  IF s # <<>> /\ IsHyphen(s[Len(s)])
    THEN DropTrailingHyphens[SubSeq(s, 1, Len(s) - 1)]
    ELSE s

\* .replace(/^-+|-+$/g, "")
TrimHyphenRuns(s) == DropTrailingHyphens[DropLeadingHyphens[s]]

\* .replace(/^-|-$/g, ""): one hyphen at each end, left to right
TrimOneHyphen[s \in Str] ==
  LET a == IF s # <<>> /\ IsHyphen(Head(s)) THEN Tail(s) ELSE s
  IN  IF a # <<>> /\ IsHyphen(a[Len(a)]) THEN SubSeq(a, 1, Len(a) - 1) ELSE a

\* .replace(/[^a-z0-9]+/g, "-"): every maximal run of other characters
\* becomes one hyphen
HyphenateNonAlnum[s \in Str] ==
  IF s = <<>> THEN <<>>
  ELSE IF IsLowerAlnum(Head(s)) THEN <<Head(s)>> \o HyphenateNonAlnum[Tail(s)]
  ELSE IF Len(s) > 1 /\ ~IsLowerAlnum(s[2]) THEN HyphenateNonAlnum[Tail(s)]
  ELSE <<"-">> \o HyphenateNonAlnum[Tail(s)]

\* .replace(/-+/g, "-")
CollapseHyphens[s \in Str] ==
  IF s = <<>> THEN <<>>
  ELSE IF IsHyphen(Head(s)) /\ Len(s) > 1 /\ IsHyphen(s[2])
    THEN CollapseHyphens[Tail(s)]
  ELSE <<Head(s)>> \o CollapseHyphens[Tail(s)]

\* .replace(/[set]/g, "")
RemoveChars[s \in Str, set \in SUBSET STRING] ==
  IF s = <<>> THEN <<>>
  ELSE IF Head(s) \in set THEN RemoveChars[Tail(s), set]
  ELSE <<Head(s)>> \o RemoveChars[Tail(s), set]

\* .replace(/[^a-z0-9]+/g, "")
KeepLowerAlnum[s \in Str] ==
  IF s = <<>> THEN <<>>
  ELSE IF IsLowerAlnum(Head(s)) THEN <<Head(s)>> \o KeepLowerAlnum[Tail(s)]
  ELSE KeepLowerAlnum[Tail(s)]

\* .replace(/&/g, "and")
ReplaceAmpersand[s \in Str] ==
  IF s = <<>> THEN <<>>
  ELSE IF Head(s) = "&" THEN <<"a","n","d">> \o ReplaceAmpersand[Tail(s)]
  ELSE <<Head(s)>> \o ReplaceAmpersand[Tail(s)]

\* normalize("NFD") and normalize("NFKD"): a precomposed letter becomes its
\* base letter followed by the combining mark
Decompose[s \in Str] ==
  IF s = <<>> THEN <<>>
  ELSE IF Head(s) = AcuteA THEN <<"a", CombAcute>> \o Decompose[Tail(s)]
  ELSE <<Head(s)>> \o Decompose[Tail(s)]

\* the length of the leading run of word characters
WordRunLen[s \in Str] ==
  IF s # <<>> /\ IsWordChar(Head(s)) THEN 1 + WordRunLen[Tail(s)] ELSE 0

StartsWith(s, p) == Len(s) >= Len(p) /\ SubSeq(s, 1, Len(p)) = p

EndsWith(s, p) ==
  Len(s) >= Len(p) /\ SubSeq(s, Len(s) - Len(p) + 1, Len(s)) = p

DropFirst(s, n) == SubSeq(s, n + 1, Len(s))

DropLast(s, n) == SubSeq(s, 1, Len(s) - n)

\* the last position of "/" in s, 0 when there is none
LastSlash(s) ==
  IF \E k \in DOMAIN s : s[k] = "/"
    THEN CHOOSE k \in DOMAIN s : s[k] = "/" /\ \A j \in DOMAIN s : s[j] = "/" => j <= k
    ELSE 0

\* the first position where p occurs in s, 0 when it does not
IndexOf(s, p) ==
  LET at(k) == k + Len(p) - 1 <= Len(s) /\ SubSeq(s, k, k + Len(p) - 1) = p
  IN  IF \E k \in 1..Len(s) : at(k)
        THEN CHOOSE k \in 1..Len(s) : at(k) /\ \A j \in 1..(k - 1) : ~at(j)
        ELSE 0

\* how often x occurs in the sequence s
Count(s, x) == Cardinality({ k \in DOMAIN s : s[k] = x })

\* [...new Set(arr)]: first occurrences, in order
uniq[arr \in Seq(Str)] ==
  IF arr = <<>> THEN <<>>
  ELSE LET init == uniq[SubSeq(arr, 1, Len(arr) - 1)]
           last == arr[Len(arr)]
       IN  IF last \in Range(init) THEN init ELSE Append(init, last)

\* .filter(Boolean) on an array of strings
FilterNonEmpty[arr \in Seq(Str)] ==
  IF arr = <<>> THEN <<>>
  ELSE IF Head(arr) = <<>> THEN FilterNonEmpty[Tail(arr)]
  ELSE <<Head(arr)>> \o FilterNonEmpty[Tail(arr)]

\* ------------------------------------------------------------------------
\* localeCompare and Array.prototype.sort
\* ------------------------------------------------------------------------
\* The primary order of the default collation on the characters of the model:
\* white space, punctuation, digits, letters.
PrimaryOrder ==
  <<" ", "_", "-", ".", "'", "/", "&", "#">> \o Digits \o LowerLetters

BaseChar(c) == IF c = AcuteA THEN "a" ELSE LowerChar(c)

PrimaryOf == [c \in Range(PrimaryOrder) |-> CHOOSE k \in DOMAIN PrimaryOrder : PrimaryOrder[k] = c]

PrimaryWeight(c) == PrimaryOf[BaseChar(c)]

\* an accent is a secondary difference
SecondaryWeight(c) == IF c = AcuteA THEN 1 ELSE 0

\* case is a tertiary difference, lower case first
TertiaryWeight(c) == IF c \in UpperSet THEN 1 ELSE 0

\* lexicographic order of two sequences of weights, a proper prefix first
WeightsLess(a, b) ==
  \E k \in 1..(Len(b)) :
    /\ k <= Len(a) + 1
    /\ \A j \in 1..(k - 1) : a[j] = b[j]
    /\ (k = Len(a) + 1 \/ a[k] < b[k])

\* a.localeCompare(b) < 0
LocaleLess(a, b) ==
  LET pa == [k \in DOMAIN a |-> PrimaryWeight(a[k])]
      pb == [k \in DOMAIN b |-> PrimaryWeight(b[k])]
      sa == [k \in DOMAIN a |-> SecondaryWeight(a[k])]
      sb == [k \in DOMAIN b |-> SecondaryWeight(b[k])]
      ta == [k \in DOMAIN a |-> TertiaryWeight(a[k])]
      tb == [k \in DOMAIN b |-> TertiaryWeight(b[k])]
  IN  IF pa # pb THEN WeightsLess(pa, pb)
      ELSE IF sa # sb THEN WeightsLess(sa, sb)
      ELSE WeightsLess(ta, tb)

\* x goes behind every element that is not greater (the sort is stable)
InsertSorted[sorted \in Seq(Str), x \in Str] ==
  IF sorted = <<>> THEN <<x>>
  ELSE IF LocaleLess(x, Head(sorted)) THEN <<x>> \o sorted
  ELSE <<Head(sorted)>> \o InsertSorted[Tail(sorted), x]

\* arr.sort((a, b) => a.localeCompare(b))
SortStrings[arr \in Seq(Str)] ==
  IF arr = <<>> THEN <<>>
  ELSE InsertSorted[SortStrings[SubSeq(arr, 1, Len(arr) - 1)], arr[Len(arr)]]

\* ------------------------------------------------------------------------
\* Text normalizer of the cleanup tool
\* ------------------------------------------------------------------------
\* s.replace(/^\s*\d+\s*\.?\s*/u, "").trim()
stripRankPrefix(s) ==
  LET a == DropWhileSpace[s]
      b == DropWhileSpace[DropWhileDigit[a]]
      c == IF b # <<>> /\ Head(b) = "." THEN Tail(b) ELSE b
  IN  IF a # <<>> /\ IsDigit(Head(a))
        THEN Trim(DropWhileSpace[c])
        ELSE Trim(s)

toSlug(name) ==
  LET ascii == RemoveChars[Decompose[name], {CombAcute}]
  IN  TrimHyphenRuns(HyphenateNonAlnum[toLowerCase(ascii)])

LogosDir == <<"l","o","g","o","s","/">>

PngExt == <<".","p","n","g">>

\* `logos/${slug}.png`
LogoOf(slug) == LogosDir \o slug \o PngExt

\* path.dirname of a path without trailing or repeated slashes
dirname(p) ==
  LET k == LastSlash(p)
  IN  IF k = 0 THEN <<".">>
      ELSE IF k = 1 THEN <<"/">>
      ELSE SubSeq(p, 1, k - 1)

\* path.basename(p, ext) of a path without trailing slashes: the last
\* component, without ext when it ends with ext and is longer than ext
basename(p, ext) ==
  LET base == DropFirst(p, LastSlash(p))
  IN  IF p = ext THEN <<>>
      ELSE IF EndsWith(base, ext) /\ Len(base) > Len(ext)
        THEN DropLast(base, Len(ext))
      ELSE base

\* .replace(/^\d+-/, "")
DropDigitsHyphen(file) ==
  LET a == DropWhileDigit[file]
  IN  IF Len(a) < Len(file) /\ a # <<>> /\ IsHyphen(Head(a)) THEN Tail(a) ELSE file

cleanLogoPath(p) ==
  dirname(p) \o <<"/">> \o DropDigitsHyphen(basename(p, PngExt)) \o PngExt

slugFromLogo(p) == basename(cleanLogoPath(p), PngExt)

\* ------------------------------------------------------------------------
\* Text normalizer of the expand tool
\* ------------------------------------------------------------------------
\* s.normalize("NFD").replace(/\p{Diacritic}+/gu, "")
latinize(s) == RemoveChars[Decompose[s], {CombAcute}]

StopWords ==
  { <<"e","s","p","o","r","t","s">>, <<"e","s","p","o","r","t">>,
    <<"g","a","m","i","n","g">>, <<"t","e","a","m">>, <<"c","l","u","b">>,
    <<"g","c">>, <<"v","a","l","o","r","a","n","t">> }

\* .replace(/\b(esports|esport|gaming|team|club|gc|valorant)\b/g, ""): a
\* maximal run of word characters that is a stop word is removed
RemoveStopWords[s \in Str] ==
  IF s = <<>> THEN <<>>
  ELSE LET n == WordRunLen[s]
       IN  IF n = 0 THEN <<Head(s)>> \o RemoveStopWords[Tail(s)]
           ELSE (IF SubSeq(s, 1, n) \in StopWords THEN <<>> ELSE SubSeq(s, 1, n))
                  \o RemoveStopWords[DropFirst(s, n)]

\* the canonical specials table of slugify
Specials ==
  { <<<<"k","r","u">>, <<"k","r","u">>>>,
    <<<<"l","e","v","i","a","t","a","n">>, <<"l","e","v","i","a","t","a","n">>>>,
    <<<<"g","2">>, <<"g","2","-","e","s","p","o","r","t","s">>>>,
    <<<<"1","0","0","-","t","h","i","e","v","e","s">>,
      <<"1","0","0","-","t","h","i","e","v","e","s">>>>,
    <<<<"t","e","a","m","-","l","i","q","u","i","d">>,
      <<"t","e","a","m","-","l","i","q","u","i","d">>>>,
    <<<<"f","n","a","t","i","c">>, <<"f","n","a","t","i","c">>>>,
    <<<<"c","l","o","u","d","9">>, <<"c","l","o","u","d","9">>>> }

\* specials[n] || n
SpecialOr[n \in Str] ==
  IF \E e \in Specials : e[1] = n
    THEN (CHOOSE e \in Specials : e[1] = n)[2]
    ELSE n

slugify(name) ==
  SpecialOr[
    \* common cleanups
    TrimOneHyphen[CollapseHyphens[RemoveStopWords[
      TrimOneHyphen[CollapseHyphens[HyphenateNonAlnum[
        RemoveChars[ReplaceAmpersand[toLowerCase(latinize(name))], {"'"}]]]]]]]]

canonicalNameKey(s) ==
  Trim(KeepLowerAlnum[RemoveStopWords[toLowerCase(latinize(s))]])

\* ------------------------------------------------------------------------
\* Map: the entries <<key, value>> in insertion order
\* ------------------------------------------------------------------------
MapHas(m, k) == \E e \in DOMAIN m : m[e].key = k

MapGet(m, k) == m[CHOOSE e \in DOMAIN m : m[e].key = k].val

\* MapSet as it would be if every set added an entry
MapSetAppend(m, k, v) == Append(m, [key |-> k, val |-> v])

\* Map.prototype.set: an existing key keeps its place, a new key goes last
MapSet(m, k, v) ==
  IF MapHas(m, k)
    THEN [e \in DOMAIN m |-> IF m[e].key = k THEN [key |-> k, val |-> v] ELSE m[e]]
    ELSE Append(m, [key |-> k, val |-> v])

MapKeys(m) == [e \in DOMAIN m |-> m[e].key]

\* [...m.entries()].sort((a, b) => a[0].localeCompare(b[0]))
SortedEntries(m) ==
  LET ks == SortStrings[MapKeys(m)]
  IN  [e \in DOMAIN ks |-> m[CHOOSE d \in DOMAIN m : m[d].key = ks[e]]]

\* ------------------------------------------------------------------------
\* The cleanup tool
\* ------------------------------------------------------------------------
\* the loop of cleanTeamsArray over the records seen so far
CleanTeamsFold[teams \in Seq(TeamRecord)] ==
  IF teams = <<>> THEN <<>>
  ELSE LET bySlugSoFar == CleanTeamsFold[SubSeq(teams, 1, Len(teams) - 1)]
           t == teams[Len(teams)]
           names == FilterNonEmpty[[k \in DOMAIN t.names |-> stripRankPrefix(t.names[k])]]
           primary == IF names # <<>> THEN names[1] ELSE <<>>
           slug == toSlug(IF primary # <<>> THEN primary ELSE slugFromLogo(t.logo))
           entry == IF MapHas(bySlugSoFar, slug)
                      THEN MapGet(bySlugSoFar, slug)
                      ELSE [logo |-> LogoOf(slug), names |-> <<>>]
       IN  MapSet(bySlugSoFar, slug,
                  [logo |-> LogoOf(slug), names |-> uniq[entry.names \o names]])

cleanTeamsArray(teams) ==
  LET sorted == SortedEntries(CleanTeamsFold[teams])
  IN  [e \in DOMAIN sorted |-> sorted[e].val]

\* the name a region item is cleaned from:
\* stripRankPrefix((item.names && item.names[0]) || item.slug || "")
ItemName(item) ==
  stripRankPrefix(IF item.names # <<>> /\ item.names[1] # <<>>
                    THEN item.names[1]
                    ELSE item.slug)

RECURSIVE CleanRegionListNoDedupe(_)
\* CleanRegionList as it would be without the seen check
CleanRegionListNoDedupe(list) ==
  IF list = <<>> THEN <<>>
  ELSE LET out == CleanRegionListNoDedupe(SubSeq(list, 1, Len(list) - 1))
           name == ItemName(list[Len(list)])
           slug == toSlug(name)
       IN  Append(out, [slug |-> slug, names |-> <<name>>, logo |-> LogoOf(slug)])

RECURSIVE CleanRegionList(_)
\* the inner loop of cleanRegions: seen holds the slugs of out
CleanRegionList(list) ==
  IF list = <<>> THEN <<>>
  ELSE LET out == CleanRegionList(SubSeq(list, 1, Len(list) - 1))
           name == ItemName(list[Len(list)])
           slug == toSlug(name)
       IN  IF \E e \in DOMAIN out : out[e].slug = slug
             THEN out
             ELSE Append(out, [slug |-> slug, names |-> <<name>>, logo |-> LogoOf(slug)])

cleanRegions(regions) == [region \in DOMAIN regions |-> CleanRegionList(regions[region])]

\* ------------------------------------------------------------------------
\* The expand tool
\* ------------------------------------------------------------------------
REGIONS == <<"EU", "NA", "BR", "AP", "KR", "CN", "JP", "LAS", "LAN", "OCE", "MENA", "GC", "CG">>

TopN == 30

\* getTop30, "dedupe in order": the trimmed candidates with a non-empty
\* canonical key, the first of each key
DedupeOrdered[candidates \in Seq(Str)] ==
  IF candidates = <<>> THEN <<>>
  ELSE LET ordered == DedupeOrdered[SubSeq(candidates, 1, Len(candidates) - 1)]
           name == Trim(candidates[Len(candidates)])
           key == canonicalNameKey(name)
       IN  IF name = <<>> \/ key = <<>> THEN ordered
           ELSE IF \E k \in DOMAIN ordered : canonicalNameKey(ordered[k]) = key THEN ordered
           ELSE Append(ordered, name)

\* what getTop30 returns for the candidates extracted from a page
getTop30(candidates) ==
  LET ordered == DedupeOrdered[candidates]
  IN  SubSeq(ordered, 1, IF Len(ordered) < TopN THEN Len(ordered) ELSE TopN)

LogoExts == { <<".","p","n","g">>, <<".","w","e","b","p">>, <<".","j","p","g">> }

\* logo.match(/logos\/(.+?)\.(?:png|webp|jpg)$/)?.[1], <<>> when there is no
\* match: what stands between the first "logos/" and the extension that ends
\* the path
LogoMatch(logo) ==
  LET at == IndexOf(logo, LogosDir)
      from == at + Len(LogosDir)
      fits(ext) == EndsWith(logo, ext) /\ from <= Len(logo) - Len(ext)
  IN  IF at > 0 /\ \E ext \in LogoExts : fits(ext)
        THEN SubSeq(logo, from, Len(logo) - Len(CHOOSE ext \in LogoExts : fits(ext)))
        ELSE <<>>

\* the key buildSlugIndex files a team record under (a team record of the
\* registry has no slug field, so t.slug is undefined)
IndexKey(t) ==
  IF LogoMatch(t.logo) # <<>> THEN LogoMatch(t.logo)
  ELSE IF t.logo # <<>> THEN t.logo
  ELSE slugify(IF t.names # <<>> THEN t.names[1] ELSE <<>>)

buildSlugIndex[teams \in Seq(TeamRecord)] ==
  IF teams = <<>> THEN <<>>
  ELSE LET bySlugSoFar == buildSlugIndex[SubSeq(teams, 1, Len(teams) - 1)]
           t == teams[Len(teams)]
       IN  IF ~MapHas(bySlugSoFar, IndexKey(t))
             THEN MapSet(bySlugSoFar, IndexKey(t), t)
             ELSE bySlugSoFar

\* mergeTeam as it would be if a hit pushed the name without the Set
mergeTeamNoSet(index, name) ==
  LET slug == slugify(name)
  IN  IF MapHas(index, slug)
        THEN MapSet(index, slug,
               [logo |-> LogoOf(slug),
                names |-> SortStrings[MapGet(index, slug).names \o <<name>>]])
        ELSE MapSet(index, slug, [logo |-> LogoOf(slug), names |-> <<name>>])

\* mergeTeam(bySlug, name): the index afterwards (the entry returned is the
\* one under slugify(name))
mergeTeam(index, name) ==
  LET slug == slugify(name)
  IN  IF MapHas(index, slug)
        THEN MapSet(index, slug,
               [logo |-> LogoOf(slug),
                names |-> SortStrings[uniq[MapGet(index, slug).names \o <<name>>]]])
        ELSE MapSet(index, slug, [logo |-> LogoOf(slug), names |-> <<name>>])

\* RegionEntryOf as it would be if the entry took the dedupe key for its slug
RegionEntryOfKey(index, nm) ==
  [slug |-> canonicalNameKey(nm), names |-> MapGet(index, slugify(nm)).names,
   logo |-> LogoOf(canonicalNameKey(nm))]

\* the entry pushed to regionList for the candidate nm
RegionEntryOf(index, nm) ==
  [slug |-> slugify(nm), names |-> MapGet(index, slugify(nm)).names,
   logo |-> LogoOf(slugify(nm))]

RECURSIVE MergeRegion(_, _)
\* the body of the try block after the fetch: every name is merged into the
\* index and gets its entry in regionList
MergeRegion(index, names) ==
  IF names = <<>> THEN [index |-> index, regionList |-> <<>>]
  ELSE LET sofar == MergeRegion(index, SubSeq(names, 1, Len(names) - 1))
           nm == names[Len(names)]
           merged == mergeTeam(sofar.index, nm)
       IN  [index |-> merged,
            regionList |-> Append(sofar.regionList, RegionEntryOf(merged, nm))]

\* db.regions[code] = list
RegionsPut(regions, code, list) ==
  [c \in DOMAIN regions \cup {code} |-> IF c = code THEN list ELSE regions[c]]

\* rebuild flat teams from map (stable order: by slug)
RebuildTeams(index) ==
  LET sorted == SortedEntries(index)
  IN  [e \in DOMAIN sorted |-> [logo |-> LogoOf(sorted[e].key), names |-> sorted[e].val.names]]

\* ------------------------------------------------------------------------
\* Inputs: names, team records, region items, registries, scraped candidates
\* ------------------------------------------------------------------------
MaxTeams == 2

MaxItems == 2

MaxCands == 2

NumRegions == 2

Fnatic == <<"F","n","a","t","i","c">>

FNATIC == <<"F","N","A","T","I","C">>

\* "12. Fnatic"
RankedFnatic == <<"1","2","."," ">> \o Fnatic

\* "G2"
G2 == <<"G","2">>

\* "Gen.G"
GenG == <<"G","e","n",".","G">>

\* "1 100 Thieves"
RankedThieves == <<"1"," ","1","0","0"," ","T","h","i","e","v","e","s">>

\* "7": a rank and nothing else
RankOnly == <<"7">>

\* "Leviatan Esports", with a-acute
Leviatan == <<"L","e","v","i","a","t",AcuteA,"n"," ","E","s","p","o","r","t","s">>

\* "DRX"
DRX == <<"D","R","X">>

\* team records {logo, names} of a registry file; a missing logo is <<>>
TeamPool ==
  { [logo |-> LogoOf(<<"f","n","a","t","i","c">>), names |-> <<Fnatic>>],
    [logo |-> LogoOf(<<"1","-","f","n","a","t","i","c">>), names |-> <<RankedFnatic, FNATIC>>],
    [logo |-> <<>>, names |-> <<RankedThieves>>],
    [logo |-> LogoOf(<<"1","-","2","-","g","e","n","g">>), names |-> <<>>],
    [logo |-> <<>>, names |-> <<RankOnly>>],
    [logo |-> LogoOf(<<"g","e","n","-","g">>), names |-> <<GenG, Leviatan>>] }

\* region items {slug, names, logo} of a registry file; a missing slug is <<>>
ItemPool ==
  { [slug |-> <<"f","n","a","t","i","c">>, names |-> <<RankedFnatic>>,
     logo |-> LogoOf(<<"1","2","-","f","n","a","t","i","c">>)],
    [slug |-> <<"f","n","a","t","i","c">>, names |-> <<FNATIC, Fnatic>>,
     logo |-> LogoOf(<<"f","n","a","t","i","c">>)],
    [slug |-> <<"g","e","n","-","g">>, names |-> <<>>, logo |-> LogoOf(<<"g","e","n","-","g">>)],
    [slug |-> <<>>, names |-> <<RankOnly>>, logo |-> <<>>] }

SeqsUpTo(S, n) == UNION { [1..k -> S] : k \in 0..n }

TeamLists == SeqsUpTo(TeamPool, MaxTeams)

ItemLists == SeqsUpTo(ItemPool, MaxItems)

NoRegions == [c \in {} |-> <<>>]

FnaticTeam == [logo |-> LogoOf(<<"f","n","a","t","i","c">>), names |-> <<Fnatic>>]

FnaticItem ==
  [slug |-> <<"f","n","a","t","i","c">>, names |-> <<Fnatic>>,
   logo |-> LogoOf(<<"f","n","a","t","i","c">>)]

DrxItem ==
  [slug |-> <<"d","r","x">>, names |-> <<DRX>>, logo |-> LogoOf(<<"d","r","x">>)]

\* registry files given to the cleanup tool: every team list with one region,
\* and every pair of region lists with one team
CleanupInputs ==
  { [version |-> 1, teams |-> t,
     regions |-> [c \in {"EU"} |-> <<FnaticItem>>]]
      : t \in TeamLists }
  \cup
  { [version |-> 1, teams |-> <<FnaticTeam>>, regions |-> r]
      : r \in [{"EU", "NA"} -> ItemLists] }

\* registry files given to the expand tool: the minimal shell of a missing
\* file; two records under one logo and a region whose team is not listed;
\* a registry whose regions name listed teams only
ExpandInputs ==
  { [version |-> 1, teams |-> <<>>, regions |-> NoRegions],
    [version |-> 1,
     teams |-> <<FnaticTeam, [logo |-> LogoOf(<<"f","n","a","t","i","c">>), names |-> <<FNATIC>>]>>,
     regions |-> [c \in {"NA"} |-> <<DrxItem>>]],
    [version |-> 1,
     teams |-> <<FnaticTeam, [logo |-> <<>>, names |-> <<Leviatan, G2>>]>>,
     regions |-> [c \in {"EU", "NA"} |-> <<FnaticItem>>]] }

\* names the candidate extraction hands to getTop30's dedupe
CandidatePool == { Fnatic, FNATIC, RankedFnatic }

\* the configured regions the model runs, a prefix of REGIONS
RegionCodes == SubSeq(REGIONS, 1, NumRegions)

\* every result getTop30 can return for a page of at most MaxCands candidates
Top30Results == { getTop30(c) : c \in SeqsUpTo(CandidatePool, MaxCands) }

\* ------------------------------------------------------------------------
\* State
\* ------------------------------------------------------------------------
VARIABLES
  tool,       \* which script runs: "cleanup" or "expand"
  pc,         \* "start", "regions" (the loop of expand), "done"
  input,      \* the registry file as it was before the run
  file,       \* teamdb/teams.json
  db,         \* expand: the registry in memory
  bySlug,     \* expand: the slug index
  i,          \* expand: the position in REGIONS of the next region
  attempted,  \* expand: the codes of the regions tried so far, in order
  fetched,    \* expand: per region tried, whether getTop30 returned, and what
  resolved    \* expand: the names given to mergeTeam so far

vars == <<tool, pc, input, file, db, bySlug, i, attempted, fetched, resolved>>

Init ==
  /\ tool \in {"cleanup", "expand"}
  /\ input \in (IF tool = "cleanup" THEN CleanupInputs ELSE ExpandInputs)
  /\ file = input
  /\ pc = "start"
  /\ db = [version |-> 1, teams |-> <<>>, regions |-> NoRegions]
  /\ bySlug = <<>>
  /\ i = 1
  /\ attempted = <<>>
  /\ fetched = NoRegions
  /\ resolved = {}

\* run() of the cleanup tool, lines 85-102
CleanupRun ==
  /\ tool = "cleanup"
  /\ pc = "start"
  /\ file' = [version |-> file.version,
              teams |-> cleanTeamsArray(file.teams),
              regions |-> cleanRegions(file.regions)]
  /\ pc' = "done"
  /\ UNCHANGED <<tool, input, db, bySlug, i, attempted, fetched, resolved>>

\* expand, lines 273-281: read the file and index its teams
ExpandStart ==
  /\ tool = "expand"
  /\ pc = "start"
  /\ db' = file
  /\ bySlug' = buildSlugIndex[file.teams]
  /\ pc' = "regions"
  /\ UNCHANGED <<tool, input, file, i, attempted, fetched, resolved>>

\* one iteration of the loop whose getTop30 returns names
RegionFetched ==
  /\ pc = "regions"
  /\ i <= NumRegions
  /\ \E names \in Top30Results :
       LET merged == MergeRegion(bySlug, names)
       IN  /\ bySlug' = merged.index
           /\ db' = [db EXCEPT !.regions = RegionsPut(@, RegionCodes[i], merged.regionList)]
           /\ fetched' = RegionsPut(fetched, RegionCodes[i], [ok |-> TRUE, names |-> names])
           /\ resolved' = resolved \cup Range(names)
  /\ attempted' = Append(attempted, RegionCodes[i])
  /\ i' = i + 1
  /\ UNCHANGED <<tool, pc, input, file>>

\* RegionFailed as it would be if the catch block always emptied the region
RegionFailedReset ==
  /\ pc = "regions"
  /\ i <= NumRegions
  /\ db' = [db EXCEPT !.regions = RegionsPut(@, RegionCodes[i], <<>>)]
  /\ fetched' = RegionsPut(fetched, RegionCodes[i], [ok |-> FALSE, names |-> <<>>])
  /\ attempted' = Append(attempted, RegionCodes[i])
  /\ i' = i + 1
  /\ UNCHANGED <<tool, pc, input, file, bySlug, resolved>>

\* RegionFailed as it would be if the try block stood around the loop
RegionFailedBreak ==
  /\ pc = "regions"
  /\ i <= NumRegions
  /\ db' = IF RegionCodes[i] \in DOMAIN db.regions
             THEN db
             ELSE [db EXCEPT !.regions = RegionsPut(@, RegionCodes[i], <<>>)]
  /\ fetched' = RegionsPut(fetched, RegionCodes[i], [ok |-> FALSE, names |-> <<>>])
  /\ attempted' = Append(attempted, RegionCodes[i])
  /\ i' = NumRegions + 1
  /\ UNCHANGED <<tool, pc, input, file, bySlug, resolved>>

\* one iteration of the loop whose getTop30 throws: the catch block
RegionFailed ==
  /\ pc = "regions"
  /\ i <= NumRegions
  /\ db' = IF RegionCodes[i] \in DOMAIN db.regions
             THEN db
             ELSE [db EXCEPT !.regions = RegionsPut(@, RegionCodes[i], <<>>)]
  /\ fetched' = RegionsPut(fetched, RegionCodes[i], [ok |-> FALSE, names |-> <<>>])
  /\ attempted' = Append(attempted, RegionCodes[i])
  /\ i' = i + 1
  /\ UNCHANGED <<tool, pc, input, file, bySlug, resolved>>

\* after the loop, lines 306-314: rebuild teams from the index and write
ExpandFinish ==
  /\ pc = "regions"
  /\ i > NumRegions
  /\ db' = [db EXCEPT !.teams = RebuildTeams(bySlug)]
  /\ file' = db'
  /\ pc' = "done"
  /\ UNCHANGED <<tool, input, bySlug, i, attempted, fetched, resolved>>

Next ==
  \/ CleanupRun
  \/ ExpandStart
  \/ RegionFetched
  \/ RegionFailed
  \/ ExpandFinish

Spec == Init /\ [][Next]_vars

\* the expand run is resumed after every await: every fetch settles, one way
\* or the other, and the synchronous parts run to their end
FairSpec ==
  /\ Spec
  /\ WF_vars(ExpandStart)
  /\ WF_vars(RegionFetched \/ RegionFailed)
  /\ WF_vars(ExpandFinish)

\* ------------------------------------------------------------------------
\* Properties
\* ------------------------------------------------------------------------
CleanupDone == tool = "cleanup" /\ pc = "done"

ExpandDone == tool = "expand" /\ pc = "done"

\* the slug embedded in logos/<slug>.png
SlugOfLogo(logo) == SubSeq(logo, Len(LogosDir) + 1, Len(logo) - Len(PngExt))

\* the index buildSlugIndex makes of the registry the run started from
InputIndex == buildSlugIndex[input.teams]

\* C1: cleanup is idempotent: cleanTeamsArray and cleanRegions applied to
\* what a cleanup run wrote give the same teams and regions again.
C1_CleanupIdempotent ==
  CleanupDone =>
    /\ cleanTeamsArray(file.teams) = file.teams
    /\ cleanRegions(file.regions) = file.regions

\* C2: slug uniqueness: after a cleanup run or an expand run no two entries
\* of the teams written share the slug of their logo path.
C2_TeamSlugsUnique ==
  pc = "done" =>
    \A a, b \in DOMAIN file.teams :
      a # b => SlugOfLogo(file.teams[a].logo) # SlugOfLogo(file.teams[b].logo)

\* C2 witness: an expand run has finished on a registry in which two team
\* records map to one slug, and has written teams.
C2_Witness ==
  /\ ExpandDone
  /\ \E a, b \in DOMAIN input.teams :
       a # b /\ IndexKey(input.teams[a]) = IndexKey(input.teams[b])
  /\ Len(file.teams) >= 2

\* the list the loop builds for a region from the names fetched for it
IsFreshList(list, names) ==
  /\ Len(list) = Len(names)
  /\ \A k \in DOMAIN names :
       /\ list[k].slug = slugify(names[k])
       /\ list[k].logo = LogoOf(slugify(names[k]))
       /\ names[k] \in Range(list[k].names)

\* C3: partial failure isolation: in the registry an expand run writes, a
\* region whose fetch failed holds its value from before the run, or the
\* empty sequence if it had none; a region whose fetch succeeded holds the
\* list built from the names fetched in this run, whatever happened to the
\* other regions.
C3_PartialFailureIsolation ==
  ExpandDone =>
    \A r \in Range(RegionCodes) :
      /\ r \in DOMAIN fetched
      /\ r \in DOMAIN file.regions
      /\ IF fetched[r].ok
           THEN IsFreshList(file.regions[r], fetched[r].names)
           ELSE file.regions[r] =
                  (IF r \in DOMAIN input.regions THEN input.regions[r] ELSE <<>>)

\* C3 witness: a finished expand run in which one region failed and kept a
\* non-empty list from before the run while another region was fetched.
C3_Witness ==
  /\ ExpandDone
  /\ \E r \in DOMAIN fetched :
       ~fetched[r].ok /\ r \in DOMAIN input.regions /\ input.regions[r] # <<>>
  /\ \E r \in DOMAIN fetched : fetched[r].ok /\ fetched[r].names # <<>>

\* C4: in an expand run the configured regions are tried once each, one at a
\* time in the configured order, whatever regions fail, and the run ends by
\* rebuilding teams from the index and writing the registry.
C4_RegionsInOrderAndRunCompletes ==
  /\ [](tool = "expand" =>
          /\ attempted = SubSeq(RegionCodes, 1, Len(attempted))
          /\ Len(attempted) = i - 1)
  /\ [](ExpandDone =>
          /\ attempted = RegionCodes
          /\ file.teams = RebuildTeams(bySlug)
          /\ file = db)
  /\ [](tool = "expand" => <>(pc = "done"))

\* C4 witness: a finished expand run whose first region failed and whose
\* last region was fetched.
C4_Witness ==
  /\ ExpandDone
  /\ ~fetched[RegionCodes[1]].ok
  /\ fetched[RegionCodes[NumRegions]].ok
  /\ fetched[RegionCodes[NumRegions]].names # <<>>

\* C5: merge union: while names are resolved with mergeTeam the index has one
\* record per slug, and the names of the record under a slug are the names
\* the record had in the index the run started from together with every
\* resolved name of that slug, each of them once as soon as a name was merged.
C5_MergeUnion ==
  tool = "expand" =>
    /\ \A a, b \in DOMAIN bySlug : a # b => bySlug[a].key # bySlug[b].key
    /\ \A n \in resolved : MapHas(bySlug, slugify(n))
    /\ \A e \in DOMAIN bySlug :
         LET merged == { n \in resolved : slugify(n) = bySlug[e].key }
             before == IF MapHas(InputIndex, bySlug[e].key)
                         THEN Range(MapGet(InputIndex, bySlug[e].key).names)
                         ELSE {}
         IN  /\ Range(bySlug[e].val.names) = before \cup merged
             /\ merged # {} =>
                  \A n \in Range(bySlug[e].val.names) : Count(bySlug[e].val.names, n) = 1

\* C5 witness: "Fnatic" and "FNATIC" were resolved against the index of a
\* registry without teams, and one record, under "fnatic", holds both once.
C5_Witness ==
  /\ tool = "expand"
  /\ input.teams = <<>>
  /\ {Fnatic, FNATIC} \subseteq resolved
  /\ \E e \in DOMAIN bySlug :
       /\ bySlug[e].key = <<"f","n","a","t","i","c">>
       /\ Range(bySlug[e].val.names) = {Fnatic, FNATIC}
       /\ Len(bySlug[e].val.names) = 2

\* C6: after a cleanup run or an expand run no name of a team record starts
\* with a rank prefix: stripRankPrefix leaves every name unchanged.
C6_NoRankPrefixKept ==
  pc = "done" =>
    \A t \in DOMAIN file.teams :
      \A k \in DOMAIN file.teams[t].names :
        stripRankPrefix(file.teams[t].names[k]) = file.teams[t].names[k]

\* C7: unresolvable inputs are skipped: no entry of the teams written and no
\* entry of a cleaned region list has an empty slug.
C7_NoEmptySlug ==
  pc = "done" =>
    /\ \A t \in DOMAIN file.teams : SlugOfLogo(file.teams[t].logo) # <<>>
    /\ tool = "cleanup" =>
         \A r \in DOMAIN file.regions :
           \A e \in DOMAIN file.regions[r] : file.regions[r][e].slug # <<>>

\* the slug cleanRegions gives a region item
ItemSlug(item) == toSlug(ItemName(item))

\* the first position of an item with the slug in the list
FirstWithSlug(list, slug) ==
  CHOOSE k \in DOMAIN list :
    ItemSlug(list[k]) = slug /\ \A j \in 1..(k - 1) : ItemSlug(list[j]) # slug

\* C8: region dedupe in cleanup: the cleaned list of a region has one entry
\* per slug that occurs among the region's own items, built from the first
\* item with that slug, in the order of first appearance.
C8_RegionDedupe ==
  CleanupDone =>
    /\ DOMAIN file.regions = DOMAIN input.regions
    /\ \A r \in DOMAIN input.regions :
         LET items == input.regions[r]
             out == file.regions[r]
         IN  /\ { out[e].slug : e \in DOMAIN out } = { ItemSlug(items[k]) : k \in DOMAIN items }
             /\ \A a, b \in DOMAIN out : a # b => out[a].slug # out[b].slug
             /\ \A e \in DOMAIN out :
                  out[e] = [slug |-> out[e].slug,
                            names |-> <<ItemName(items[FirstWithSlug(items, out[e].slug)])>>,
                            logo |-> LogoOf(out[e].slug)]
             /\ \A a, b \in DOMAIN out :
                  a < b => FirstWithSlug(items, out[a].slug) < FirstWithSlug(items, out[b].slug)

\* C8 witness: a cleanup run on a region with two items of one slug and
\* different names, the later one dropped, while another region holds an
\* item of that slug and keeps it.
C8_Witness ==
  /\ CleanupDone
  /\ \E r, q \in DOMAIN input.regions :
       /\ r # q
       /\ Len(input.regions[r]) = 2
       /\ ItemSlug(input.regions[r][1]) = ItemSlug(input.regions[r][2])
       /\ ItemName(input.regions[r][1]) # ItemName(input.regions[r][2])
       /\ Len(file.regions[r]) = 1
       /\ \E e \in DOMAIN file.regions[q] :
            file.regions[q][e].slug = ItemSlug(input.regions[r][1])

\* the number of team records written under the slug
TeamsWithSlug(slug) ==
  Cardinality({ t \in DOMAIN file.teams : file.teams[t].logo = LogoOf(slug) })

\* C9 as claimed: in the registry an expand run writes, the slug of every
\* entry of every region, rebuilt or kept, is the slug of exactly one team.
C9_EveryRegionSlugHasTeam ==
  ExpandDone =>
    \A r \in DOMAIN file.regions :
      \A e \in DOMAIN file.regions[r] : TeamsWithSlug(file.regions[r][e].slug) = 1

\* C9 amended: in the registry an expand run writes, the slug of every entry
\* of a region rebuilt in this run is the slug of exactly one team, and so is
\* the slug of an entry of a kept region if the registry read had a team
\* record indexed under that slug.
C9_RebuiltRegionSlugHasTeam ==
  ExpandDone =>
    \A r \in DOMAIN file.regions :
      \A e \in DOMAIN file.regions[r] :
        ((r \in DOMAIN fetched /\ fetched[r].ok) \/ MapHas(InputIndex, file.regions[r][e].slug))
          => TeamsWithSlug(file.regions[r][e].slug) = 1

\* C9 witness: a finished expand run with a rebuilt region that is not empty
\* and a kept region whose entry names a team of the registry read.
C9_Witness ==
  /\ ExpandDone
  /\ \E r \in DOMAIN fetched : fetched[r].ok /\ Len(file.regions[r]) >= 2
  /\ \E r \in DOMAIN fetched :
       /\ ~fetched[r].ok
       /\ \E e \in DOMAIN file.regions[r] : MapHas(InputIndex, file.regions[r][e].slug)

\* C10: expand loses no known name: every name of every team record of the
\* registry read is a name of the team written under that record's slug.
C10_NoKnownNameLost ==
  ExpandDone =>
    \A t \in DOMAIN input.teams :
      \A k \in DOMAIN input.teams[t].names :
        \E o \in DOMAIN file.teams :
          /\ file.teams[o].logo = LogoOf(IndexKey(input.teams[t]))
          /\ input.teams[t].names[k] \in Range(file.teams[o].names)

====
